---- MODULE Spec2Model ----
(***************************************************************************)
(* Model of send_sensor_data.py: the replay of a timestamped CSV file into *)
(* Pub/Sub at a simulated rate.  One run of the script (__main__) or one   *)
(* direct call of simulate() is a behaviour.  Observation times are whole  *)
(* seconds (TIME_FORMAT has no fraction); the wall clock is counted in     *)
(* ticks of 1/TicksPerSec second.                                          *)
(***************************************************************************)
EXTENDS Integers, Sequences, FiniteSets, TLC

\* ---------------------------------------------------------------- bounds
MaxRecs == 3
MaxGap == 2
MaxLatency == 2

\* ------------------------------------------------------------- constants
\* range of datetime.timedelta.seconds: 0 <= seconds < 3600*24
SecondsPerDay == 86400
\* resolution of the wall clock of the model (ticks per second)
TicksPerSec == 1000
\* "if compute_sleep_secs(obs_time) > 1"
FlushThreshold == 1

VARIABLES
  source,        \* the data lines of the file after the header (ifp)
  speedFactor,   \* args.speedFactor
  entry,         \* "main": the script is run; "call": simulate() is called
  firstObsTime,  \* simulate's parameter, seconds
  programStart,  \* simulate's parameter, ticks
  now,           \* datetime.datetime.utcnow(), ticks
  pos,           \* number of data lines consumed from ifp
  reads,         \* number of data lines read from ifp (peeked or pulled)
  pc,            \* position of the single thread of control
  final,         \* TRUE once the for loop is exhausted (line 85 reached)
  topublish,     \* the accumulator
  pubIdx,        \* index of the next event inside publish's for loop
  toSleep,       \* to_sleep_secs, ticks
  batches,       \* the events arguments of the calls of publish(), in order
  sent,          \* the arguments of the calls of publisher.publish, in order
  err,           \* the exception that ended the run, "none" if none
  errAt,         \* the function that raised it
  lat,           \* number of latency steps taken so far
  trace          \* history of the run: pulls, flushes, sleeps, appends

vars == <<source, speedFactor, entry, firstObsTime, programStart, now, pos,
          reads, pc, final, topublish, pubIdx, toSleep, batches, sent, err,
          errAt, lat, trace>>

\* ------------------------------------------------------------ the inputs
\* observation times of the lines, in seconds: close together and a day apart
ObsSet == (0..MaxGap) \cup {SecondsPerDay}

\* --speedFactor is any float: negative, zero, and the positive values
\* that divide TicksPerSec (so that the division is exact in ticks)
SpeedFactors == {-1, 0, 1, 2, TicksPerSec}

\* the k-th data line of the file: its timestamp field parses or not, its
\* numeric fields convert or not, and its lane field tells the lines apart
LinesAt(k) ==
  {[tsok |-> TRUE, ts |-> o, fieldsok |-> TRUE, lane |-> k] : o \in ObsSet}
  \cup {[tsok |-> FALSE, ts |-> 0, fieldsok |-> TRUE, lane |-> k],
        [tsok |-> TRUE, ts |-> 0, fieldsok |-> FALSE, lane |-> k]}

Sources ==
  UNION {{s \in [1..n -> UNION {LinesAt(k) : k \in 1..n}] :
            \A k \in 1..n : s[k] \in LinesAt(k)} : n \in 0..MaxRecs}

\* the firstObsTime arguments of a direct call of simulate
FirstObsArgs == {0, 1}

\* the steps by which the wall clock advances outside time.sleep
LatencySteps == {TicksPerSec \div 2, 2 * TicksPerSec}

\* ------------------------------------------------------- pure functions
\* datetime.timedelta.seconds of a difference given in ticks
Seconds(delta) == (delta \div TicksPerSec) % SecondsPerDay

\* x / speedFactor, for the speed factors of SpeedFactors (never 0 here)
Over(x, sf) == IF sf > 0 THEN x \div sf ELSE 0 - (x \div (0 - sf))

\* line 60: (datetime.datetime.utcnow() - programStart).seconds, at instant t
time_elapsed(t) == Seconds(t - programStart)

\* line 61: (obs_time - firstObsTime).seconds / speedFactor, in ticks
sim_time_elapsed(obs_time) ==
  Over(Seconds((obs_time - firstObsTime) * TicksPerSec) * TicksPerSec,
       speedFactor)

\* compute_sleep_secs, in ticks, at the wall-clock instant t
compute_sleep_secs(obs_time, t) ==
  sim_time_elapsed(obs_time) - time_elapsed(t) * TicksPerSec

\* a plausible slip: the threshold test written with >=
NeedsFlush_GE(obs_time, t) ==
  compute_sleep_secs(obs_time, t) >= FlushThreshold * TicksPerSec

\* a plausible slip: the flush is taken whenever any sleep is due
NeedsFlush_AnySleep(obs_time, t) == compute_sleep_secs(obs_time, t) > 0

\* line 71: compute_sleep_secs(obs_time) > 1
NeedsFlush(obs_time, t) ==
  compute_sleep_secs(obs_time, t) > FlushThreshold * TicksPerSec

\* convert_csv_to_json: the row as a JSON object
convert_csv_to_json(line) ==
  [timestamp |-> line.ts, lane |-> line.lane]

\* event_data.encode()
Encode(event_data) == <<"utf8", event_data>>

\* ----------------------------------------------------------------- Init
Init ==
  /\ source \in Sources
  /\ speedFactor \in SpeedFactors
  /\ entry \in {"main", "call"}
  /\ firstObsTime \in (IF entry = "main" THEN {0} ELSE FirstObsArgs)
  /\ programStart = 0
  /\ now = 0
  /\ pos = 0
  /\ reads = 0
  /\ pc = (IF entry = "main" THEN "main" ELSE "pull")
  /\ final = FALSE
  /\ topublish = <<>>
  /\ pubIdx = 0
  /\ toSleep = 0
  /\ batches = <<>>
  /\ sent = <<>>
  /\ err = "none"
  /\ errAt = "none"
  /\ lat = 0
  /\ trace = <<>>

\* an exception propagates out of the run
Raise(e, f) ==
  /\ pc' = "crashed"
  /\ err' = e
  /\ errAt' = f

\* -------------------------------------------------------------- actions
\* a plausible slip: peek_timestamp does not seek back after its readline
Main_NoSeek ==
  /\ pc = "main"
  /\ programStart' = now
  /\ trace' = Append(trace, <<"peek", 0>>)
  /\ LET tell == pos
         afterReadline == IF pos < Len(source) THEN pos + 1 ELSE pos
     IN  pos' = afterReadline
  /\ IF pos < Len(source)
       THEN /\ reads' = reads + 1
            /\ IF source[pos + 1].tsok
                 THEN /\ firstObsTime' = source[pos + 1].ts
                      /\ pc' = "pull"
                      /\ UNCHANGED <<err, errAt>>
                 ELSE /\ Raise("ValueError", "peek_timestamp")
                      /\ UNCHANGED firstObsTime
       ELSE /\ Raise("ValueError", "peek_timestamp")
            /\ UNCHANGED <<firstObsTime, reads>>
  /\ UNCHANGED <<source, speedFactor, entry, now, final, topublish,
                 pubIdx, toSleep, batches, sent, lat>>

\* __main__, lines 113-116: programStartTime, skip the header, peek;
\* peek_timestamp, lines 89-92: tell, readline, seek back, get_timestamp
Main ==
  /\ pc = "main"
  /\ programStart' = now
  /\ trace' = Append(trace, <<"peek", 0>>)
  /\ LET tell == pos
         afterReadline == IF pos < Len(source) THEN pos + 1 ELSE pos
     IN  pos' = tell
  /\ IF pos < Len(source)
       THEN /\ reads' = reads + 1
            /\ IF source[pos + 1].tsok
                 THEN /\ firstObsTime' = source[pos + 1].ts
                      /\ pc' = "pull"
                      /\ UNCHANGED <<err, errAt>>
                 ELSE /\ Raise("ValueError", "peek_timestamp")
                      /\ UNCHANGED firstObsTime
       ELSE /\ Raise("ValueError", "peek_timestamp")
            /\ UNCHANGED <<firstObsTime, reads>>
  /\ UNCHANGED <<source, speedFactor, entry, now, final, topublish,
                 pubIdx, toSleep, batches, sent, lat>>

\* a plausible slip: a line whose timestamp does not parse is skipped
Pull_SkipBad ==
  /\ pc = "pull"
  /\ IF pos = Len(source)
       THEN /\ final' = TRUE
            /\ pc' = "publish"
            /\ UNCHANGED <<pos, reads, err, errAt, trace>>
       ELSE /\ pos' = pos + 1
            /\ reads' = reads + 1
            /\ trace' = Append(trace, <<"pull", pos + 1>>)
            /\ UNCHANGED final
            /\ IF ~source[pos + 1].tsok
                 THEN /\ pc' = "pull"
                      /\ UNCHANGED <<err, errAt>>
                 ELSE IF speedFactor = 0
                 THEN Raise("ZeroDivisionError", "compute_sleep_secs")
                 ELSE /\ pc' = (IF NeedsFlush(source[pos + 1].ts, now)
                                 THEN "publish" ELSE "append")
                      /\ UNCHANGED <<err, errAt>>
  /\ UNCHANGED <<source, speedFactor, entry, firstObsTime, programStart, now,
                 topublish, pubIdx, toSleep, batches, sent, lat>>

\* simulate, lines 66-71 and the loop exit: next line, timestamp, sleep test
Pull ==
  /\ pc = "pull"
  /\ IF pos = Len(source)
       THEN /\ final' = TRUE
            /\ pc' = "publish"
            /\ UNCHANGED <<pos, reads, err, errAt, trace>>
       ELSE /\ pos' = pos + 1
            /\ reads' = reads + 1
            /\ trace' = Append(trace, <<"pull", pos + 1>>)
            /\ UNCHANGED final
            /\ IF ~source[pos + 1].tsok
                 THEN Raise("ValueError", "get_timestamp")
                 ELSE IF speedFactor = 0
                 THEN Raise("ZeroDivisionError", "compute_sleep_secs")
                 ELSE /\ pc' = (IF NeedsFlush(source[pos + 1].ts, now)
                                 THEN "publish" ELSE "append")
                      /\ UNCHANGED <<err, errAt>>
  /\ UNCHANGED <<source, speedFactor, entry, firstObsTime, programStart, now,
                 topublish, pubIdx, toSleep, batches, sent, lat>>

\* publish, lines 30-33: print(events[0]) comes before the numobs test
Publish ==
  /\ pc = "publish"
  /\ batches' = Append(batches, topublish)
  /\ trace' = Append(trace, <<IF final THEN "final" ELSE "flush",
                              Len(topublish)>>)
  /\ IF topublish = <<>>
       THEN /\ Raise("IndexError", "publish")
            /\ UNCHANGED pubIdx
       ELSE /\ pc' = "send"
            /\ pubIdx' = 1
            /\ UNCHANGED <<err, errAt>>
  /\ UNCHANGED <<source, speedFactor, entry, firstObsTime, programStart, now,
                 pos, reads, final, topublish, toSleep, sent, lat>>

\* a plausible slip: publish returns after its first publisher.publish call
SinkPublish_ReturnEarly ==
  /\ pc = "send"
  /\ sent' = Append(sent, Encode(topublish[pubIdx]))
  /\ pubIdx' = 0
  /\ pc' = "returned"
  /\ UNCHANGED <<source, speedFactor, entry, firstObsTime, programStart, now,
                 pos, reads, final, topublish, toSleep, batches, err, errAt,
                 lat, trace>>

\* publish, lines 34-35: one publisher.publish call, which returns
SinkPublish ==
  /\ pc = "send"
  /\ sent' = Append(sent, Encode(topublish[pubIdx]))
  /\ IF pubIdx < Len(topublish)
       THEN /\ pubIdx' = pubIdx + 1
            /\ UNCHANGED pc
       ELSE /\ pubIdx' = 0
            /\ pc' = "returned"
  /\ UNCHANGED <<source, speedFactor, entry, firstObsTime, programStart, now,
                 pos, reads, final, topublish, toSleep, batches, err, errAt,
                 lat, trace>>

\* a plausible slip: the error of the sink is caught and the loop goes on
SinkRaise_Swallow ==
  /\ pc = "send"
  /\ sent' = Append(sent, Encode(topublish[pubIdx]))
  /\ err' = "TransportError"
  /\ errAt' = "publisher.publish"
  /\ IF pubIdx < Len(topublish)
       THEN /\ pubIdx' = pubIdx + 1
            /\ UNCHANGED pc
       ELSE /\ pubIdx' = 0
            /\ pc' = "returned"
  /\ UNCHANGED <<source, speedFactor, entry, firstObsTime, programStart, now,
                 pos, reads, final, topublish, toSleep, batches, lat, trace>>

\* publish, line 35: the publisher.publish call raises; nothing catches it
SinkRaise ==
  /\ pc = "send"
  /\ sent' = Append(sent, Encode(topublish[pubIdx]))
  /\ Raise("TransportError", "publisher.publish")
  /\ UNCHANGED <<source, speedFactor, entry, firstObsTime, programStart, now,
                 pos, reads, final, topublish, pubIdx, toSleep, batches, lat,
                 trace>>

\* a plausible slip: the list is not emptied after the flush
AfterFlush_NoReset ==
  /\ pc = "returned"
  /\ ~final
  /\ topublish' = topublish
  /\ LET to_sleep_secs == compute_sleep_secs(source[pos].ts, now)
     IN  IF to_sleep_secs > 0
           THEN /\ toSleep' = to_sleep_secs
                /\ pc' = "sleep"
           ELSE /\ pc' = "append"
                /\ UNCHANGED toSleep
  /\ UNCHANGED <<source, speedFactor, entry, firstObsTime, programStart, now,
                 pos, reads, final, pubIdx, batches, sent, err, errAt, lat,
                 trace>>

\* a plausible slip: the recomputed sleep is tested against the threshold
AfterFlush_Threshold ==
  /\ pc = "returned"
  /\ ~final
  /\ topublish' = <<>>
  /\ LET to_sleep_secs == compute_sleep_secs(source[pos].ts, now)
     IN  IF to_sleep_secs > FlushThreshold * TicksPerSec
           THEN /\ toSleep' = to_sleep_secs
                /\ pc' = "sleep"
           ELSE /\ pc' = "append"
                /\ UNCHANGED toSleep
  /\ UNCHANGED <<source, speedFactor, entry, firstObsTime, programStart, now,
                 pos, reads, final, pubIdx, batches, sent, err, errAt, lat,
                 trace>>

\* simulate, lines 74-78: empty the list, recompute the sleep
AfterFlush ==
  /\ pc = "returned"
  /\ ~final
  /\ topublish' = <<>>
  /\ LET to_sleep_secs == compute_sleep_secs(source[pos].ts, now)
     IN  IF to_sleep_secs > 0
           THEN /\ toSleep' = to_sleep_secs
                /\ pc' = "sleep"
           ELSE /\ pc' = "append"
                /\ UNCHANGED toSleep
  /\ UNCHANGED <<source, speedFactor, entry, firstObsTime, programStart, now,
                 pos, reads, final, pubIdx, batches, sent, err, errAt, lat,
                 trace>>

\* a plausible slip: the sleep is logged but not taken
Sleep_None ==
  /\ pc = "sleep"
  /\ now' = now
  /\ trace' = Append(trace, <<"sleep", toSleep>>)
  /\ pc' = "append"
  /\ UNCHANGED <<source, speedFactor, entry, firstObsTime, programStart, pos,
                 reads, final, topublish, pubIdx, toSleep, batches, sent, err,
                 errAt, lat>>

\* simulate, line 80: time.sleep(to_sleep_secs)
Sleep ==
  /\ pc = "sleep"
  /\ now' = now + toSleep
  /\ trace' = Append(trace, <<"sleep", toSleep>>)
  /\ pc' = "append"
  /\ UNCHANGED <<source, speedFactor, entry, firstObsTime, programStart, pos,
                 reads, final, topublish, pubIdx, toSleep, batches, sent, err,
                 errAt, lat>>

\* a plausible slip: lines 81-82 indented into an else branch of line 71, so
\* that a record that triggered a flush is not appended
AppendEvent_OnlyIfNoFlush ==
  /\ pc = "append"
  /\ IF trace[Len(trace)][1] # "pull"
       THEN /\ pc' = "pull"
            /\ UNCHANGED <<topublish, trace, err, errAt>>
       ELSE IF source[pos].fieldsok
       THEN /\ topublish' = Append(topublish, convert_csv_to_json(source[pos]))
            /\ trace' = Append(trace, <<"append", pos>>)
            /\ pc' = "pull"
            /\ UNCHANGED <<err, errAt>>
       ELSE /\ Raise("ValueError", "convert_csv_to_json")
            /\ UNCHANGED <<topublish, trace>>
  /\ UNCHANGED <<source, speedFactor, entry, firstObsTime, programStart, now,
                 pos, reads, final, pubIdx, toSleep, batches, sent, lat>>

\* simulate, lines 81-82: convert the line and append it
AppendEvent ==
  /\ pc = "append"
  /\ IF source[pos].fieldsok
       THEN /\ topublish' = Append(topublish, convert_csv_to_json(source[pos]))
            /\ trace' = Append(trace, <<"append", pos>>)
            /\ pc' = "pull"
            /\ UNCHANGED <<err, errAt>>
       ELSE /\ Raise("ValueError", "convert_csv_to_json")
            /\ UNCHANGED <<topublish, trace>>
  /\ UNCHANGED <<source, speedFactor, entry, firstObsTime, programStart, now,
                 pos, reads, final, pubIdx, toSleep, batches, sent, lat>>

\* simulate, line 85 returns: the run is over
Return ==
  /\ pc = "returned"
  /\ final
  /\ pc' = "done"
  /\ UNCHANGED <<source, speedFactor, entry, firstObsTime, programStart, now,
                 pos, reads, final, topublish, pubIdx, toSleep, batches, sent,
                 err, errAt, lat, trace>>

\* the wall clock advances while the loop reads a line (by less than a
\* second) or while the sink publishes (by any of the steps)
Tick ==
  /\ pc \in {"pull", "send"}
  /\ lat < MaxLatency
  /\ \E d \in LatencySteps :
       /\ pc = "pull" => d < TicksPerSec
       /\ now' = now + d
  /\ lat' = lat + 1
  /\ UNCHANGED <<source, speedFactor, entry, firstObsTime, programStart, pos,
                 reads, pc, final, topublish, pubIdx, toSleep, batches, sent,
                 err, errAt, trace>>

Next ==
  \/ Main
  \/ Pull
  \/ Publish
  \/ SinkPublish
  \/ SinkRaise
  \/ AfterFlush
  \/ Sleep
  \/ AppendEvent
  \/ Return
  \/ Tick

Spec == Init /\ [][Next]_vars

\* ------------------------------------------------- auxiliary operators
RECURSIVE Flatten(_)
\* the concatenation of a sequence of batches
Flatten(bs) == IF bs = <<>> THEN <<>> ELSE Head(bs) \o Flatten(Tail(bs))

\* the first n lines of the file, converted in source order
Converted(n) == [i \in 1..n |-> convert_csv_to_json(source[i])]

\* the first n lines of the file, as the sink receives them
Encoded(n) == [i \in 1..n |-> Encode(convert_csv_to_json(source[i]))]

EncodeAll(events) == [i \in 1..Len(events) |-> Encode(events[i])]

WellFormed == \A k \in 1..Len(source) : source[k].tsok /\ source[k].fieldsok

\* the events of the history with the given tag
Events(tag) == {i \in 1..Len(trace) : trace[i][1] = tag}

Appended(k) == \E i \in 1..Len(trace) : trace[i] = <<"append", k>>

\* --------------------------------------------------------------- claims
\* C1: when simulate returns, the batches passed to publish, concatenated in
\* call order, and the messages handed to publisher.publish, one per record,
\* are the source records converted by convert_csv_to_json in source order:
\* nothing lost, duplicated or reordered.
C1_PassThrough ==
  pc = "done" =>
    /\ Flatten(batches) = Converted(Len(source))
    /\ sent = Encoded(Len(source))

\* C1: a run with a positive speed factor returned after an in-loop flush
C1_Witness ==
  /\ pc = "done"
  /\ speedFactor > 0
  /\ WellFormed
  /\ Len(source) = MaxRecs
  /\ Len(batches) >= 2

\* C2: the final flush of an empty accumulator is a no-op publish: nothing is
\* delivered to the sink and no error is raised, the run terminates normally.
C2_EmptyFinalFlushIsNoOp ==
  (speedFactor > 0 /\ final /\ batches # <<>> /\ batches[Len(batches)] = <<>>) =>
    (err = "none" /\ pc \in {"returned", "done"} /\ sent = <<>>)

\* C3: a speed factor that is zero or negative is rejected before the run
\* starts: no record is peeked or pulled and nothing is published.
C3_NonPositiveSpeedRejected ==
  speedFactor <= 0 => (reads = 0 /\ batches = <<>> /\ sent = <<>>)

\* C4: when the timestamp of record k does not parse, the run aborts at that
\* record with the earlier records flushed or retained in the accumulator;
\* record k and the records after it are never appended or published, and no
\* record after k is pulled.
C4_AbortAtBadTimestamp ==
  \A k \in 1..Len(source) :
    ~source[k].tsok =>
      /\ pos <= k
      /\ \A j \in k..Len(source) :
           /\ ~Appended(j)
           /\ \A i \in 1..Len(sent) : sent[i][2].lane # j
      /\ (pos = k \/ (k = 1 /\ entry = "main" /\ pc # "main")) =>
           (pc = "crashed" /\ err = "ValueError")
      /\ pos = k =>
           /\ errAt = "get_timestamp"
           /\ sent \o EncodeAll(topublish) = Encoded(k - 1)

\* C4: the run aborted at the second of three records, the first one retained
C4_Witness ==
  /\ Len(source) = 3
  /\ ~source[2].tsok
  /\ pos = 2
  /\ errAt = "get_timestamp"
  /\ topublish # <<>>

\* C5: the scenario of three records, speed factor 1 and no latency, where
\* records 1 and 2 do not exceed the threshold and record 3 is 2 s in
Scenario5 ==
  /\ Len(source) = 3
  /\ WellFormed
  /\ speedFactor = 1
  /\ lat = 0
  /\ pc # "main"
  /\ sim_time_elapsed(source[1].ts) <= FlushThreshold * TicksPerSec
  /\ sim_time_elapsed(source[2].ts) <= FlushThreshold * TicksPerSec
  /\ sim_time_elapsed(source[3].ts) = 2 * TicksPerSec

\* C5: in that scenario there are exactly two flushes: the first holds
\* records 1 and 2 and is delivered before record 3 is appended, the final
\* one holds record 3 alone.
C5_TwoFlushes ==
  Scenario5 =>
    /\ Len(batches) <= 2
    /\ Appended(3) => (batches # <<>> /\ batches[1] = Converted(2)
                       /\ Len(sent) >= 2)
    /\ pc = "done" => batches = <<Converted(2), <<convert_csv_to_json(source[3])>> >>

\* C5: the scenario ran to its end
C5_Witness == Scenario5 /\ pc = "done" /\ Len(batches) = 2

\* C6: with speed factor 1, no latency and non-decreasing timestamps that
\* span T seconds from the first record, the wall-clock time from
\* programStart to the final flush lies between T - 1 and T seconds, for
\* every T, a day or more included.
NonDecreasing ==
  \A k \in 1..(Len(source) - 1) : source[k].ts <= source[k + 1].ts

C6_RunTimeTracksSpan ==
  (/\ pc = "done"
   /\ speedFactor = 1
   /\ lat = 0
   /\ WellFormed
   /\ NonDecreasing
   /\ Len(source) >= 1
   /\ firstObsTime = source[1].ts) =>
    LET T == (source[Len(source)].ts - source[1].ts) * TicksPerSec
    IN  /\ now - programStart >= T - TicksPerSec
        /\ now - programStart <= T

\* the seconds from firstObsTime to the latest observation of the file
ObsSpan ==
  IF source = <<>> THEN 0
  ELSE (CHOOSE m \in {source[k].ts : k \in 1..Len(source)} :
          \A k \in 1..Len(source) : source[k].ts <= m) - firstObsTime

\* a speed factor larger than the observation span, no record before the first
FastReplay ==
  /\ WellFormed
  /\ pc # "main"
  /\ \A k \in 1..Len(source) : source[k].ts >= firstObsTime
  /\ speedFactor > ObsSpan

\* C7 as stated: under a speed factor larger than the observation span
\* compute_sleep_secs is <= 0 for every record at every wall-clock instant.
C7_SleepNeverPositive ==
  FastReplay =>
    \A k \in 1..pos : compute_sleep_secs(source[k].ts, now) <= 0

\* C7 as amended: under a speed factor larger than the observation span
\* compute_sleep_secs stays below 1 second for every record at every
\* wall-clock instant (it is positive until a whole second has elapsed), so
\* the driver never flushes inside the loop and never sleeps.
C7_NeverFlushesNeverSleeps ==
  FastReplay =>
    /\ \A k \in 1..Len(source) :
         compute_sleep_secs(source[k].ts, now) < TicksPerSec
    /\ Events("flush") = {}
    /\ Events("sleep") = {}
    /\ pc # "sleep"
    /\ pc \in {"publish", "send", "returned"} => final

\* C7: a fast replay of spaced records ran to its end
C7_Witness ==
  /\ FastReplay
  /\ ObsSpan > 0
  /\ Len(source) = MaxRecs
  /\ pc = "done"
  /\ \E k \in 1..Len(source) : compute_sleep_secs(source[k].ts, now) > 0

\* C8: for obsTime >= firstObsTime and now >= programStart, however long the
\* two intervals, compute_sleep_secs(obsTime) is (whole seconds from
\* firstObsTime to obsTime) / speedFactor minus (whole seconds from
\* programStart to now).
C8_SleepIsFullDifference ==
  (pc # "main" /\ speedFactor > 0 /\ now >= programStart) =>
    \A k \in 1..pos :
      (source[k].tsok /\ source[k].ts >= firstObsTime) =>
        compute_sleep_secs(source[k].ts, now)
          = Over((source[k].ts - firstObsTime) * TicksPerSec, speedFactor)
            - ((now - programStart) \div TicksPerSec) * TicksPerSec

NoDup(s) == \A i, j \in 1..Len(s) : s[i] = s[j] => i = j

\* C9: when publisher.publish raises, the error ends the run: no step
\* follows it (no retry, no further pull, no return), and no record is
\* handed to the sink more than once.
C9_SinkErrorPropagates ==
  [][/\ err # "TransportError"
     /\ err' = "TransportError" => (pc' = "crashed" /\ pos' = pos)
     /\ NoDup(sent')]_vars

\* C9: the sink failed during an in-loop flush with lines left in the file
C9_Witness ==
  /\ err = "TransportError"
  /\ pc = "crashed"
  /\ ~final
  /\ Len(sent) >= 1
  /\ pos < Len(source)

\* C10: draining an accumulator that is empty (nothing appended since it was
\* last emptied) hands over an empty sequence, leaves it empty and has no
\* other effect: nothing reaches the sink and no error is raised.
C10_DrainOfEmptyIsIdempotent ==
  [][(pc = "publish" /\ topublish = <<>> /\ speedFactor > 0) =>
       (topublish' = <<>> /\ sent' = sent /\ err' = "none")]_vars

\* the position in the history of the pull of line k
PullIdx(k) == CHOOSE i \in 1..Len(trace) : trace[i] = <<"pull", k>>

\* the position in the history of the last in-loop flush, 0 if none
LastFlushIdx ==
  IF Events("flush") = {} THEN 0
  ELSE CHOOSE i \in Events("flush") : \A j \in Events("flush") : j <= i

IsAppend(e) == e[1] = "append"

\* the records appended since the last in-loop flush, in order of appending
SinceFlush ==
  LET apps == SelectSeq(SubSeq(trace, LastFlushIdx + 1, Len(trace)), IsAppend)
  IN  [i \in 1..Len(apps) |-> convert_csv_to_json(source[apps[i][2]])]

\* C11: a pulled record triggers an in-loop flush exactly when the sleep
\* computed for it at pull time exceeds 1 second (exactly 1 second does not);
\* the flushed batch is the records appended since the previous flush, never
\* the triggering record, which is appended afterwards to the emptied list.
C11_FlushIffOverThreshold ==
  [][/\ (pc = "pull" /\ pos' = pos + 1 /\ pc' # "crashed") =>
          /\ pc' \in {"publish", "append"}
          /\ pc' = "publish" <=>
               compute_sleep_secs(source[pos'].ts, now)
                 > FlushThreshold * TicksPerSec
     /\ (pc = "publish" /\ ~final) =>
          /\ batches' = Append(batches, SinceFlush)
          /\ \A i \in 1..Len(SinceFlush) : SinceFlush[i].lane # pos
     /\ (pc = "append" /\ pc' = "pull" /\ LastFlushIdx > PullIdx(pos)) =>
          /\ topublish = <<>>
          /\ topublish' = <<convert_csv_to_json(source[pos])>>]_vars

\* C11: a record due in exactly 1 second was appended without a flush, the
\* next one flushed the two records before it and was appended alone
C11_Witness ==
  /\ Len(source) = 3
  /\ speedFactor = 1
  /\ lat = 0
  /\ trace = <<<<"pull", 1>>, <<"append", 1>>, <<"pull", 2>>, <<"append", 2>>,
               <<"pull", 3>>, <<"flush", 2>>, <<"sleep", 2 * TicksPerSec>>,
               <<"append", 3>>>>
  /\ sim_time_elapsed(source[2].ts) = FlushThreshold * TicksPerSec
  /\ topublish = <<convert_csv_to_json(source[3])>>

\* C12: after an in-loop flush the sleep is recomputed at the wall clock as
\* it stands once publish has returned; the driver sleeps exactly when that
\* value is > 0, for exactly that value, and otherwise appends at once.
C12_SleepIsRecomputed ==
  [][/\ (pc = "returned" /\ ~final) =>
          LET v == compute_sleep_secs(source[pos].ts, now)
          IN  /\ v > 0 => (pc' = "sleep" /\ toSleep' = v)
              /\ v <= 0 => (pc' = "append" /\ now' = now)
     /\ pc = "sleep" =>
          /\ toSleep = compute_sleep_secs(source[pos].ts, now)
          /\ toSleep > 0
          /\ now' = now + toSleep
          /\ pc' = "append"
     /\ (pc' = "append" /\ now' # now) => pc = "sleep"]_vars

\* C12: the publish took time, so the sleep about to be taken is no longer
\* the value of more than 1 second that triggered the flush
C12_Witness ==
  /\ pc = "sleep"
  /\ lat > 0
  /\ toSleep > 0
  /\ toSleep <= FlushThreshold * TicksPerSec

\* C13: peek_timestamp leaves the position of the file where it was, so the
\* first record simulate pulls is the peeked one: its observation time is
\* firstObsTime and it is the first record emitted.
C13_PeekDoesNotConsume ==
  [][/\ pc = "main" => pos' = pos
     /\ (entry = "main" /\ pos' >= 1) =>
          /\ firstObsTime' = source[1].ts
          /\ Events("pull")' # {}
          /\ \A i \in Events("pull")' : trace'[i][2] >= 1
          /\ trace'[2] = <<"pull", 1>>
          /\ sent' # <<>> => sent'[1] = Encode(convert_csv_to_json(source[1]))
          /\ (batches' # <<>> /\ batches'[1] # <<>>)
               => batches'[1][1] = convert_csv_to_json(source[1])]_vars

\* C13: a run of the script has emitted its first record, more were pulled
C13_Witness ==
  /\ entry = "main"
  /\ pos >= 2
  /\ sent # <<>>
  /\ sent[1] = Encode(convert_csv_to_json(source[1]))

\* C14: with well-formed records, a positive speed factor and a sink whose
\* calls return, the run ends in Done and in no other way: every record was
\* pulled exactly once, exactly one flush was issued after the source was
\* exhausted, and that final flush is the last thing the driver did.
C14_EndsInDone ==
  (/\ WellFormed
   /\ speedFactor > 0
   /\ err # "TransportError"
   /\ pc \in {"done", "crashed"}) =>
    /\ pc = "done"
    /\ pos = Len(source)
    /\ \A k \in 1..Len(source) :
         Cardinality({i \in Events("pull") : trace[i][2] = k}) = 1
    /\ Cardinality(Events("final")) = 1
    /\ trace[Len(trace)][1] = "final"

\* the numbers of the lines appended so far, in order of appending
AppendOrder ==
  LET apps == SelectSeq(trace, IsAppend)
  IN  [i \in 1..Len(apps) |-> apps[i][2]]

InSeq(x, seq) == \E i \in 1..Len(seq) : seq[i] = x

\* C15: the accumulator is emptied only once publish has handed every record
\* of the batch to the sink, in insertion order; at every moment, also after
\* a publisher.publish call has failed in the middle of a batch, each
\* appended record is still in the accumulator or was passed to the sink
\* (the i-th message of the sink being the i-th record appended).
C15_ResetOnlyAfterFullFlush ==
  /\ \A i \in 1..Len(AppendOrder) :
       \/ InSeq(convert_csv_to_json(source[AppendOrder[i]]), topublish)
       \/ i <= Len(sent)
  /\ Len(sent) <= Len(AppendOrder)
  /\ \A i \in 1..Len(sent) :
       sent[i] = Encode(convert_csv_to_json(source[AppendOrder[i]]))
  /\ pc = "returned" =>
       /\ Len(sent) >= Len(topublish)
       /\ SubSeq(sent, Len(sent) - Len(topublish) + 1, Len(sent))
            = EncodeAll(topublish)

\* C15: the sink failed on the first of two records of an in-loop flush
C15_Witness ==
  /\ err = "TransportError"
  /\ ~final
  /\ Len(topublish) = 2
  /\ Len(sent) = 1

\* firstObsTime is the observation time of the first record of the file
Seeded ==
  /\ source # <<>>
  /\ source[1].tsok
  /\ firstObsTime = source[1].ts
  /\ pc # "main"

\* C16: when firstObsTime is the observation time of the first record, every
\* call of publish, in the loop or final, is given a non-empty batch: the
\* first record never triggers a flush and the accumulator holds at least
\* the previous record at every later flush.
C16_NoEmptyPublish ==
  Seeded =>
    /\ \A i \in 1..Len(batches) : batches[i] # <<>>
    /\ err # "IndexError"
    /\ pc = "publish" => topublish # <<>>
    /\ (pc = "publish" /\ ~final) =>
         /\ pos >= 2
         /\ InSeq(convert_csv_to_json(source[pos - 1]), topublish)

\* C16: a run of the script returned after an in-loop and a final flush
C16_Witness ==
  /\ Seeded
  /\ entry = "main"
  /\ pc = "done"
  /\ Events("flush") # {}
  /\ Len(batches) >= 2

\* line k is on schedule terms the claim covers: not before firstObsTime and
\* less than a day after it
WithinDay(k) ==
  /\ source[k].tsok
  /\ source[k].ts >= firstObsTime
  /\ source[k].ts - firstObsTime < SecondsPerDay

\* C17: no record is emitted more than 1 second ahead of its schedule: from
\* the moment a record is appended on, the whole seconds elapsed since
\* programStart are at least its simulated elapsed seconds minus 1, for
\* observation spans and run times below one day.
C17_NotAheadOfSchedule ==
  (/\ pc # "main"
   /\ speedFactor # 0
   /\ now >= programStart
   /\ now - programStart < SecondsPerDay * TicksPerSec) =>
    \A k \in 1..pos :
      ((Appended(k) \/ (k = pos /\ pc = "append")) /\ WithinDay(k)) =>
        ((now - programStart) \div TicksPerSec) * TicksPerSec
          >= Over((source[k].ts - firstObsTime) * TicksPerSec, speedFactor)
             - TicksPerSec

\* C17: a record due 2 seconds or more into the run was appended after a sleep
C17_Witness ==
  /\ speedFactor > 0
  /\ pos >= 2
  /\ Appended(pos)
  /\ WithinDay(pos)
  /\ source[pos].ts - firstObsTime >= 2
  /\ Events("sleep") # {}
  /\ now - programStart < SecondsPerDay * TicksPerSec

\* C18: the driver sleeps only directly after the in-loop flush triggered by
\* the record it is processing, at most once per pulled record, and the
\* accumulator is empty whenever it sleeps.
C18_SleepOnlyAfterFlush ==
  /\ pc = "sleep" =>
       /\ topublish = <<>>
       /\ Len(trace) >= 2
       /\ trace[Len(trace)][1] = "flush"
       /\ trace[Len(trace) - 1] = <<"pull", pos>>
  /\ \A i \in Events("sleep") :
       /\ i >= 3
       /\ trace[i - 1][1] = "flush"
       /\ trace[i - 2][1] = "pull"
       /\ i < Len(trace) => trace[i + 1] = <<"append", trace[i - 2][2]>>

\* C18: the driver is about to sleep after flushing two records
C18_Witness ==
  /\ pc = "sleep"
  /\ batches # <<>>
  /\ Len(batches[Len(batches)]) = 2
  /\ Len(sent) = 2

====
